---- MODULE Spec2Model ----
(***************************************************************************)
(* Model of the galera job queue (src/galera/src/pasture/galera_job_queue.c): *)
(* a fixed table of worker slots guarded by one mutex, with one condition  *)
(* variable per slot.  register, start and end are called on a slot handle *)
(* by one caller thread at a time, and only while the slot is not          *)
(* JOB_VOID; job_queue_remove_worker may be called on any slot.            *)
(*                                                                         *)
(* Steps: code that runs between gu_mutex_lock and the next                *)
(* gu_mutex_unlock or gu_cond_wait is one step, except the conflict scan   *)
(* of job_queue_start_job, which takes one step per loop iteration with    *)
(* the mutex held.  The unlocked reads of a caller's own slot state (lines *)
(* 161, 236) are part of the step that follows them; the two unlocked      *)
(* writes of job_queue_register_job are one step each.  gu_cond_wait       *)
(* returns only after a gu_cond_signal (no spurious wake-up), and the      *)
(* woken caller takes the mutex again in a step of its own.  A failed      *)
(* assert() terminates the process.                                        *)
(***************************************************************************)
EXTENDS Integers, FiniteSets

\* ---------------------------------------------------------------- bounds
\* size of the slot table (MAX_WORKERS of galera_job_queue.h, scaled down)
MAX_WORKERS == 3
\* largest max_workers argument given to job_queue_create
MaxWorkersArg == 2
\* number of distinct non-null work items (ctx handles 1..MaxCtx)
MaxCtx == 2
\* most calls of the job_queue_* functions the callers make in one run
MaxCalls == 7

Slots == 0..(MAX_WORKERS - 1)
NULL == 0
Ctxs == 1..MaxCtx
NoThread == -1

JOB_VOID == "JOB_VOID"
JOB_IDLE == "JOB_IDLE"
JOB_REGISTERED == "JOB_REGISTERED"
JOB_WAIT_QUEUE_ENTER == "JOB_WAIT_QUEUE_ENTER"
JOB_WAIT_FOR_JOB == "JOB_WAIT_FOR_JOB"
JOB_RUNNING == "JOB_RUNNING"

VARIABLES
    state,                  \* jobs[i].state
    ctx,                    \* jobs[i].ctx (NULL or a handle)
    waiters,                \* waiters[j] = {w : jobs[j].waiters[w] = 1}
    active_workers,         \* queue->active_workers
    registered_workers,     \* queue->registered_workers
    max_concurrent_workers, \* queue->max_concurrent_workers
    mutex,                  \* slot whose caller holds queue->mutex, or NoThread
    pc,                     \* position of the call in flight on each slot
    arg,                    \* ctx argument of the last start/register call that went past its running check
    idx,                    \* loop variable i of job_queue_start_job
    ret,                    \* what the most recent step returned to its caller
    aborted,                \* an assert() has failed
    calls,                  \* number of calls the callers have made so far
    limited                 \* whether the callers stop after MaxCalls calls

vars == <<state, ctx, waiters, active_workers, registered_workers,
          max_concurrent_workers, mutex, pc, arg, idx, ret, aborted, calls,
          limited>>

\* the queue and slot fields, without the callers' positions and results
queue_vars == <<state, ctx, waiters, active_workers, registered_workers,
                max_concurrent_workers>>

\* a return: the function, the source line of its return statement, the slot
\* the call was about and the value returned
NoRet == [op |-> "none", line |-> 0, slot |-> -1, val |-> 0]
Ret(o, l, s, v) == [op |-> o, line |-> l, slot |-> s, val |-> v]

WSDB_OK == 0
QueueFull == -1
NoFreeSlot == -2

\* ------------------------------------------------- caller-supplied callbacks
\* conflict predicate on two non-null handles: item 1 conflicts with every
\* other item, and no item conflicts with itself (symmetric)
conflict_pair(a, b) == a # b /\ (a = 1 \/ b = 1)

\* the outcomes of queue->conflict_test(a, b); the callback dereferences its
\* arguments, so a null handle leaves the outcome open
conflict_test(a, b) ==
    IF a = NULL \/ b = NULL THEN BOOLEAN ELSE {conflict_pair(a, b)}

\* the outcomes of queue->job_cmp_order(&x, &y) on the stored handles x, y:
\* the order of the items is the order of their numbers
job_cmp_order(x, y) ==
    IF x = NULL \/ y = NULL THEN {-1, 0, 1}
    ELSE {IF x < y THEN -1 ELSE IF x = y THEN 0 ELSE 1}

\* ------------------------------------------------------------ construction
Clamp(max_workers) ==
    IF max_workers < MAX_WORKERS THEN max_workers ELSE MAX_WORKERS

InitQueue ==
    /\ state = [i \in Slots |-> JOB_VOID]
    /\ ctx = [i \in Slots |-> NULL]
    /\ waiters = [i \in Slots |-> {}]
    /\ active_workers = 0
    /\ registered_workers = 0
    /\ max_concurrent_workers \in {Clamp(m) : m \in 1..MaxWorkersArg}
    /\ mutex = NoThread
    /\ pc = [i \in Slots |-> "ready"]
    /\ arg = [i \in Slots |-> NULL]
    /\ idx = [i \in Slots |-> 0]
    /\ ret = NoRet
    /\ aborted = FALSE
    /\ calls = 0

\* the callers make at most MaxCalls calls
Init == InitQueue /\ limited = TRUE

\* the callers make any number of calls
InitUnlimited == InitQueue /\ limited = FALSE

\* a caller enters one of the job_queue_* functions
CallMade ==
    /\ IF limited THEN calls < MaxCalls /\ calls' = calls + 1
                  ELSE UNCHANGED calls
    /\ UNCHANGED limited

\* a call in flight goes on
CallGoesOn == UNCHANGED <<calls, limited>>

\* ------------------------------------------------------ condition variables
\* gu_cond_signal(&jobs[w].cond) for every w in ws, applied to the positions p:
\* a caller parked in gu_cond_wait becomes runnable, any other is unaffected
Signal(p, ws) ==
    [w \in Slots |->
        IF w \in ws /\ p[w] = "cond_wait_queue" THEN "wake_queue"
        ELSE IF w \in ws /\ p[w] = "cond_wait_job" THEN "wake_job"
        ELSE p[w]]

\* ------------------------------------------------------ release_my_waiters
\* the slots release_my_waiters(queue, worker) signals
MyWaiters(worker) ==
    {i \in Slots : i < registered_workers /\ i \in waiters[worker]}

\* the assert of release_my_waiters holds for every slot it signals
MyWaitersAssert(worker) ==
    \A i \in MyWaiters(worker) : state[i] = JOB_WAIT_FOR_JOB

\* ----------------------------------------------------- job_queue_new_worker
\* the test of line 89 made one slot too early
QueueIsFullOffByOne == registered_workers = MAX_WORKERS - 1

\* the test of line 89
QueueIsFull == registered_workers = MAX_WORKERS

VoidSlots == {i \in Slots : state[i] = JOB_VOID}

\* the slot the while loop of job_queue_new_worker stops at
FirstVoid == CHOOSE i \in VoidSlots : \A j \in VoidSlots : i <= j

job_queue_new_worker ==
    /\ CallMade
    /\ ~aborted
    /\ mutex = NoThread
    /\ IF QueueIsFull
       THEN /\ ret' = Ret("new_worker", 95, -1, QueueFull)
            /\ UNCHANGED <<state, registered_workers>>
       ELSE IF VoidSlots = {}
       THEN /\ ret' = Ret("new_worker", 111, -1, NoFreeSlot)
            /\ UNCHANGED <<state, registered_workers>>
       ELSE /\ registered_workers' = registered_workers + 1
            /\ state' = [state EXCEPT ![FirstVoid] = JOB_IDLE]
            /\ ret' = Ret("new_worker", 124, FirstVoid, WSDB_OK)
    /\ UNCHANGED <<ctx, waiters, active_workers, max_concurrent_workers,
                   mutex, pc, arg, idx, aborted>>

\* a caller may use the handle of slot s: the slot is allocated and no other
\* call on it is in flight
Usable(s) == ~aborted /\ pc[s] = "ready" /\ state[s] # JOB_VOID

\* -------------------------------------------------- job_queue_remove_worker
\* a failed assert() at source line l terminates the process: nothing runs
\* afterwards
Abort(s, l) ==
    /\ aborted' = TRUE
    /\ ret' = Ret("abort", l, s, 0)
    /\ UNCHANGED <<queue_vars, mutex, pc, arg, idx>>

\* job_queue_remove_worker takes the handle of any slot of the table, also one
\* that is Void or whose owner is blocked in start; it is not called in the
\* middle of the unlocked writes of a register on the same slot
Releasable(s) == ~aborted /\ pc[s] # "register_state"

\* the assert of line 144 compiled out
RemoveAssertOff(s) == TRUE

\* assert(JOB_IDLE == worker->state) of line 144 holds, after lines 135-142
RemoveAssert(s) == state[s] \in {JOB_IDLE, JOB_REGISTERED}

\* line 147 left out
RemoveRegisteredKept == registered_workers

\* the decrement of line 147
RemoveRegistered == registered_workers - 1

\* lines 132-151; the whole function runs with the mutex held
job_queue_remove_worker(s) ==
    /\ CallMade
    /\ Releasable(s)
    /\ mutex = NoThread
    /\ IF RemoveAssert(s) /\ (state[s] = JOB_REGISTERED => MyWaitersAssert(s))
       THEN /\ pc' = IF state[s] = JOB_REGISTERED
                     THEN Signal(pc, MyWaiters(s)) ELSE pc
            /\ state' = [state EXCEPT ![s] = JOB_VOID]
            /\ ctx' = IF state[s] = JOB_REGISTERED
                      THEN [ctx EXCEPT ![s] = NULL] ELSE ctx
            /\ arg' = [arg EXCEPT ![s] = NULL]
            /\ registered_workers' = RemoveRegistered
            /\ ret' = Ret("remove_worker", 152, s, WSDB_OK)
            /\ UNCHANGED <<waiters, active_workers, max_concurrent_workers,
                           mutex, idx, aborted>>
       ELSE Abort(s, IF RemoveAssert(s) THEN 25 ELSE 144)

\* ---------------------------------------------------- job_queue_register_job
\* the tests of lines 161 and 213 left out
NoRunningCheck(s) == FALSE

\* the unlocked test `worker->state == JOB_RUNNING` of lines 161 and 213
AlreadyRunning(s) == state[s] = JOB_RUNNING

\* lines 213-218: the running check, then the unlocked write of worker->ctx
register_job_call(s, c) ==
    /\ CallMade
    /\ Usable(s)
    /\ IF AlreadyRunning(s)
       THEN /\ ret' = Ret("register_job", 215, s, WSDB_OK)
            /\ UNCHANGED <<ctx, pc, arg>>
       ELSE /\ ctx' = [ctx EXCEPT ![s] = c]
            /\ arg' = [arg EXCEPT ![s] = c]
            /\ pc' = [pc EXCEPT ![s] = "register_state"]
            /\ ret' = NoRet
    /\ UNCHANGED <<state, waiters, active_workers, registered_workers,
                   max_concurrent_workers, mutex, idx, aborted>>

\* lines 219-222: the unlocked write of worker->state, and the return
register_job_state(s) ==
    /\ CallGoesOn
    /\ ~aborted
    /\ pc[s] = "register_state"
    /\ state' = [state EXCEPT ![s] = JOB_REGISTERED]
    /\ pc' = [pc EXCEPT ![s] = "ready"]
    /\ ret' = Ret("register_job", 222, s, WSDB_OK)
    /\ UNCHANGED <<ctx, waiters, active_workers, registered_workers,
                   max_concurrent_workers, mutex, arg, idx, aborted>>

\* ------------------------------------------------------- job_queue_start_job
\* the admission test of line 169
GateFull == active_workers = max_concurrent_workers

\* line 176 left out
PassGateNoSeat(s, c) ==
    /\ active_workers' = active_workers
    /\ ctx' = [ctx EXCEPT ![s] = c]
    /\ idx' = [idx EXCEPT ![s] = 0]
    /\ pc' = [pc EXCEPT ![s] = "scan"]
    /\ mutex' = s

\* lines 176-177 and the loop initialisation of line 183, for a call with
\* argument c; the caller of s holds the mutex
PassGate(s, c) ==
    /\ active_workers' = active_workers + 1
    /\ ctx' = [ctx EXCEPT ![s] = c]
    /\ idx' = [idx EXCEPT ![s] = 0]
    /\ pc' = [pc EXCEPT ![s] = "scan"]
    /\ mutex' = s

\* lines 161-177: the running check, made before the mutex is taken (no
\* other caller writes the state of slot s, so the check and the lock are one
\* step); then with the gate full the caller parks on its condition variable,
\* which releases the mutex, and with the gate open it takes a seat
start_job_call(s, c) ==
    /\ CallMade
    /\ Usable(s)
    /\ IF AlreadyRunning(s)
       THEN /\ ret' = Ret("start_job", 163, s, WSDB_OK)
            /\ UNCHANGED <<queue_vars, mutex, pc, arg, idx, aborted>>
       ELSE /\ mutex = NoThread
            /\ arg' = [arg EXCEPT ![s] = c]
            /\ ret' = NoRet
            /\ IF GateFull
               THEN /\ state' = [state EXCEPT ![s] = JOB_WAIT_QUEUE_ENTER]
                    /\ pc' = [pc EXCEPT ![s] = "cond_wait_queue"]
                    /\ UNCHANGED <<ctx, active_workers, mutex, idx>>
               ELSE /\ PassGate(s, c)
                    /\ UNCHANGED state
            /\ UNCHANGED <<waiters, registered_workers,
                           max_concurrent_workers, aborted>>

\* lines 172-177: the signalled capacity waiter gets the mutex back and goes
\* on; the admission test is not made again
start_job_wake_queue(s) ==
    /\ CallGoesOn
    /\ ~aborted
    /\ pc[s] = "wake_queue"
    /\ mutex = NoThread
    /\ PassGate(s, arg[s])
    /\ ret' = NoRet
    /\ UNCHANGED <<state, waiters, registered_workers, max_concurrent_workers,
                   arg, aborted>>

\* the states of lines 184-187
LiveStates == {JOB_RUNNING, JOB_WAIT_QUEUE_ENTER, JOB_WAIT_FOR_JOB, JOB_REGISTERED}

\* the loop condition of line 183
ScanBound == registered_workers

\* the candidate test of lines 184-188
Candidate(s, i) == state[i] \in LiveStates /\ i # s

\* one iteration of the loop of lines 183-199 that does not park
start_job_scan_next(s) ==
    /\ CallGoesOn
    /\ ~aborted
    /\ pc[s] = "scan"
    /\ idx[s] < ScanBound
    /\ \/ ~Candidate(s, idx[s])
       \/ Candidate(s, idx[s]) /\ FALSE \in conflict_test(arg[s], ctx[idx[s]])
    /\ idx' = [idx EXCEPT ![s] = idx[s] + 1]
    /\ ret' = NoRet
    /\ UNCHANGED <<queue_vars, mutex, pc, arg, aborted>>

\* lines 190-194: a conflict; the caller records itself as a waiter of slot
\* i and parks, which releases the mutex
start_job_wait_job(s) ==
    /\ CallGoesOn
    /\ ~aborted
    /\ pc[s] = "scan"
    /\ idx[s] < ScanBound
    /\ Candidate(s, idx[s])
    /\ TRUE \in conflict_test(arg[s], ctx[idx[s]])
    /\ waiters' = [waiters EXCEPT ![idx[s]] = @ \cup {s}]
    /\ state' = [state EXCEPT ![s] = JOB_WAIT_FOR_JOB]
    /\ pc' = [pc EXCEPT ![s] = "cond_wait_job"]
    /\ mutex' = NoThread
    /\ ret' = NoRet
    /\ UNCHANGED <<ctx, active_workers, registered_workers,
                   max_concurrent_workers, arg, idx, aborted>>

\* line 196 left out
WaiterFlagKept(s) == waiters

\* line 196: the waiter flag of slot s on the slot it waited for is cleared
WaiterFlagCleared(s) == [waiters EXCEPT ![idx[s]] = @ \ {s}]

\* lines 194-198: the signalled conflict waiter gets the mutex back, clears
\* its waiter flag and goes on with the next index
start_job_wake_job(s) ==
    /\ CallGoesOn
    /\ ~aborted
    /\ pc[s] = "wake_job"
    /\ mutex = NoThread
    /\ waiters' = WaiterFlagCleared(s)
    /\ idx' = [idx EXCEPT ![s] = idx[s] + 1]
    /\ pc' = [pc EXCEPT ![s] = "scan"]
    /\ mutex' = s
    /\ ret' = NoRet
    /\ UNCHANGED <<state, ctx, active_workers, registered_workers,
                   max_concurrent_workers, arg, aborted>>

\* lines 200-204: the loop is over
start_job_run(s) ==
    /\ CallGoesOn
    /\ ~aborted
    /\ pc[s] = "scan"
    /\ ~(idx[s] < ScanBound)
    /\ state' = [state EXCEPT ![s] = JOB_RUNNING]
    /\ idx' = [idx EXCEPT ![s] = 0]
    /\ pc' = [pc EXCEPT ![s] = "ready"]
    /\ mutex' = NoThread
    /\ ret' = Ret("start_job", 204, s, WSDB_OK)
    /\ UNCHANGED <<ctx, waiters, active_workers, registered_workers,
                   max_concurrent_workers, arg, aborted>>

\* --------------------------------------------------------- job_queue_end_job
\* lines 236-237 testing for an unallocated slot only
BadEndStateVoidOnly(s) == state[s] = JOB_VOID

\* the unlocked test of lines 236-237
BadEndState(s) == state[s] # JOB_RUNNING /\ state[s] # JOB_REGISTERED

\* the loop condition of line 258
RequeueBound == registered_workers

\* the values min_job can have after the loop of lines 258-269, from index i
\* on with min_job = min, over the slot states st and stored handles cx
RECURSIVE MinJob(_, _, _, _)
MinJob(i, min, st, cx) ==
    IF ~(i < RequeueBound) THEN {min}
    ELSE IF st[i] # JOB_WAIT_QUEUE_ENTER THEN MinJob(i + 1, min, st, cx)
    ELSE IF min = -1 THEN MinJob(i + 1, i, st, cx)
    ELSE UNION {IF r = -1 THEN MinJob(i + 1, i, st, cx)
                          ELSE MinJob(i + 1, min, st, cx) :
                r \in job_cmp_order(cx[i], cx[min])}

\* line 253 placed after line 255 has cleared the handle
EndResultAfterClear(s) == NULL

\* the value of line 253 that job_queue_end_job returns
EndResult(s) == ctx[s]

\* line 250 without the test of line 249
EndActiveAlways(s) == active_workers - 1

\* the decrement of lines 249-251
EndActive(s) ==
    IF state[s] = JOB_RUNNING THEN active_workers - 1 ELSE active_workers

\* lines 236-279: the state check, made before the mutex is taken (no other
\* caller writes the state of slot s, so the check and the lock are one
\* step); the rest of the function runs with the mutex held
job_queue_end_job(s) ==
    /\ CallMade
    /\ Usable(s)
    /\ IF BadEndState(s)
       THEN /\ ret' = Ret("end_job", 241, s, NULL)
            /\ UNCHANGED <<queue_vars, mutex, pc, arg, idx, aborted>>
       ELSE /\ mutex = NoThread
            /\ IF MyWaitersAssert(s)
               THEN /\ active_workers' = EndActive(s)
                    /\ state' = [state EXCEPT ![s] = JOB_IDLE]
                    /\ ctx' = [ctx EXCEPT ![s] = NULL]
                    /\ arg' = [arg EXCEPT ![s] = NULL]
                    /\ \E min_job \in MinJob(0, -1, state', ctx') :
                          pc' = Signal(Signal(pc, MyWaiters(s)),
                                       {min_job} \cap Slots)
                    /\ ret' = Ret("end_job", 279, s, EndResult(s))
                    /\ UNCHANGED <<waiters, registered_workers,
                                   max_concurrent_workers, mutex, idx, aborted>>
               ELSE Abort(s, 25)

\* ------------------------------------------------------------ specification
Next ==
    \/ job_queue_new_worker
    \/ \E s \in Slots : job_queue_remove_worker(s)
    \/ \E s \in Slots, c \in Ctxs : register_job_call(s, c)
    \/ \E s \in Slots : register_job_state(s)
    \/ \E s \in Slots, c \in Ctxs : start_job_call(s, c)
    \/ \E s \in Slots : start_job_wake_queue(s)
    \/ \E s \in Slots : start_job_scan_next(s)
    \/ \E s \in Slots : start_job_wait_job(s)
    \/ \E s \in Slots : start_job_wake_job(s)
    \/ \E s \in Slots : start_job_run(s)
    \/ \E s \in Slots : job_queue_end_job(s)

\* runs of at most MaxCalls calls, every call running to its end
Spec == Init /\ [][Next]_vars

\* runs of any number of calls
SpecUnlimited == InitUnlimited /\ [][Next]_vars

\* ------------------------------------------------------------------ claims
Running(s) == state[s] = JOB_RUNNING

\* C1: in every reachable state the counter active never exceeds
\* max_concurrent.
AdmissionBound == active_workers <= max_concurrent_workers

\* C2: no two distinct slots whose stored units conflict are both Running.
MutualExclusion ==
    \A a, b \in Slots :
        (a # b /\ Running(a) /\ Running(b) /\ ctx[a] # NULL /\ ctx[b] # NULL)
            => ~conflict_pair(ctx[a], ctx[b])

\* slot w is parked in gu_cond_wait of line 194 as a waiter of slot i
ParkedOn(w, i) == w \in waiters[i] /\ pc[w] = "cond_wait_job"

\* the step is end(i) or release_slot(i) of a Running or Registered slot i
EndsOrReleases(i) ==
    \/ state[i] \in {JOB_RUNNING, JOB_REGISTERED} /\ job_queue_end_job(i)
    \/ state[i] = JOB_REGISTERED /\ job_queue_remove_worker(i)

\* C3: end(i), or release_slot(i) on a Registered slot i, signals the
\* condition variable of every slot parked as a waiter of slot i.
WaiterWakeUp ==
    [][\A i, w \in Slots :
          (ParkedOn(w, i) /\ EndsOrReleases(i)) => pc'[w] = "wake_job"]_vars

\* the capacity waiters the step signals
QueueSignalled == {w \in Slots : pc[w] = "cond_wait_queue" /\ pc'[w] = "wake_queue"}

\* the slots in state WaitingForCapacity
QueueWaiting == {w \in Slots : state[w] = JOB_WAIT_QUEUE_ENTER}

\* C4: when end frees a seat, the capacity waiter it signals is one whose
\* pending unit of work (the ctx given to its start call) is least among the
\* slots then WaitingForCapacity, and at most one such waiter is signalled.
RequeueFairness ==
    [][\A s \in Slots :
          (Running(s) /\ job_queue_end_job(s)) =>
              /\ Cardinality(QueueSignalled) <= 1
              /\ \A w \in QueueSignalled :
                    \A v \in QueueWaiting : arg[w] <= arg[v]]_vars

\* C5: end(s) on a Running or Registered slot returns the ctx most recently
\* given to start(s, ctx) or register(s, ctx), and leaves s Idle with no ctx.
RoundTrip ==
    [][\A s \in Slots :
          (state[s] \in {JOB_RUNNING, JOB_REGISTERED} /\ job_queue_end_job(s)) =>
              /\ ret' = Ret("end_job", 279, s, arg[s])
              /\ state'[s] = JOB_IDLE
              /\ ctx'[s] = NULL]_vars

\* end has returned the handle of one slot while another slot holds a
\* different handle
RoundTripWitness ==
    /\ ret.op = "end_job" /\ ret.val # NULL
    /\ \E t \in Slots : ctx[t] # NULL /\ ctx[t] # ret.val

\* the step is a call of start or register on slot s
StartOrRegister(s) ==
    \E c \in Ctxs : start_job_call(s, c) \/ register_job_call(s, c)

\* C6: start or register called on a slot that is already Running returns
\* success and changes no counter, slot state, stored ctx or waiter set.
RunningIdempotence ==
    [][\A s \in Slots :
          (Running(s) /\ StartOrRegister(s)) =>
              /\ ret'.val = WSDB_OK /\ ret'.slot = s
              /\ ret'.op \in {"start_job", "register_job"}
              /\ UNCHANGED <<queue_vars, pc, mutex>>]_vars

\* start has returned from its running check on a Running slot
RunningIdempotenceWitness ==
    /\ ret.op = "start_job" /\ ret.line = 163
    /\ Running(ret.slot) /\ active_workers >= 1

\* C7: end(s) on a slot that is neither Running nor Registered returns null
\* and changes nothing, and signals no condition variable.
EndInvalidState ==
    [][\A s \in Slots :
          (state[s] \notin {JOB_RUNNING, JOB_REGISTERED} /\ job_queue_end_job(s)) =>
              /\ ret' = Ret("end_job", 241, s, NULL)
              /\ UNCHANGED <<queue_vars, pc, mutex>>]_vars

\* end has returned null on an Idle slot
EndInvalidStateWitness ==
    /\ ret.op = "end_job" /\ ret.line = 241
    /\ state[ret.slot] = JOB_IDLE

\* the slots that are not Void
Allocated == {s \in Slots : state[s] # JOB_VOID}

\* the lowest-index Void slot
LowestVoid == CHOOSE i \in Slots \ Allocated : \A j \in Slots \ Allocated : i <= j

\* C8: acquire_slot fails with QueueFull if and only if registered = capacity,
\* and then changes nothing; otherwise it returns the lowest-index Void slot,
\* set to Idle, with registered incremented by one.
AcquireSlot ==
    [][job_queue_new_worker =>
          IF registered_workers = MAX_WORKERS
          THEN /\ ret'.val = QueueFull
               /\ UNCHANGED <<queue_vars, pc, mutex>>
          ELSE /\ ret' = Ret("new_worker", 124, LowestVoid, WSDB_OK)
               /\ state' = [state EXCEPT ![LowestVoid] = JOB_IDLE]
               /\ registered_workers' = registered_workers + 1
               /\ UNCHANGED <<ctx, waiters, active_workers, pc, mutex>>]_vars

\* acquire_slot has returned QueueFull
AcquireSlotWitness ==
    /\ ret.op = "new_worker" /\ ret.val = QueueFull
    /\ Allocated = Slots

\* C9: registered equals the number of slots that are not Void, lies in
\* 0..capacity, and acquire_slot never returns NoFreeSlot.
RegisteredCount ==
    /\ registered_workers = Cardinality(Allocated)
    /\ 0 <= registered_workers /\ registered_workers <= MAX_WORKERS
    /\ ~(ret.op = "new_worker" /\ ret.val = NoFreeSlot)

\* a slot has been released while a higher-index slot is still allocated
RegisteredCountWitness ==
    /\ ret.op = "remove_worker"
    /\ \E t \in Slots : t > ret.slot /\ state[t] # JOB_VOID

\* C10: whenever the mutex is not held, active equals the number of Running
\* slots.
ActiveCountsRunning ==
    mutex = NoThread =>
        active_workers = Cardinality({s \in Slots : Running(s)})

\* C10, amended: whenever the mutex is not held, active equals the number of
\* slots that are Running or WaitingForConflict.
ActiveCountsSeats ==
    mutex = NoThread =>
        active_workers =
            Cardinality({s \in Slots : state[s] \in {JOB_RUNNING, JOB_WAIT_FOR_JOB}})

\* one slot is Running while another, parked on a conflict, holds a seat
ActiveCountsSeatsWitness ==
    /\ mutex = NoThread
    /\ \E s, t \in Slots : Running(s) /\ pc[t] = "cond_wait_job"

\* C11: if jobs[j].waiters[w] is set then slot w is in state
\* WaitingForConflict, and the assert of the waiter-release step never fails.
WaiterSetInvariant ==
    /\ \A j, w \in Slots : w \in waiters[j] => state[w] = JOB_WAIT_FOR_JOB
    /\ ~(ret.op = "abort" /\ ret.line = 25)

\* an end has run the waiter-release step on a flagged waiter, which is
\* signalled and has not resumed yet
WaiterSetInvariantWitness ==
    /\ ret.op = "end_job" /\ ret.line = 279
    /\ \E w \in waiters[ret.slot] : pc[w] = "wake_job"

\* C12: a slot that is Void or Idle holds no ctx, in every reachable state.
PayloadPresence ==
    \A s \in Slots : state[s] \in {JOB_VOID, JOB_IDLE} => ctx[s] = NULL

\* the slots parked in gu_cond_wait of line 172 with no signal pending
CapacityParked == {w \in Slots : pc[w] = "cond_wait_queue"}

\* the capacity waiters already signalled that have not resumed yet
CapacityPending == {w \in Slots : pc[w] = "wake_queue"}

\* C13: when a Running slot A ends while a slot is parked in
\* WaitingForCapacity, some capacity waiter resumes: the end signals one of
\* the parked slots, or one signalled earlier is about to resume (a caller
\* parked at line 172 resumes only once its condition variable is signalled).
CapacityWaitLiveness ==
    [][\A A \in Slots :
          (Running(A) /\ CapacityParked # {} /\ job_queue_end_job(A)) =>
              (QueueSignalled # {} \/ CapacityPending # {})]_vars

\* slot j has nothing left to do: it is parked on a condition variable with
\* no signal pending, or it is between calls and neither Running nor
\* Registered, so that no end or release_slot of it is due
Quiescent(j) ==
    \/ pc[j] \in {"cond_wait_queue", "cond_wait_job"}
    \/ pc[j] = "ready" /\ state[j] \notin {JOB_RUNNING, JOB_REGISTERED}

\* C14: no start call stays blocked forever on a conflict: there is no
\* reachable state in which a slot is parked in WaitingForConflict while every
\* slot is quiescent (no call is in progress and no slot is Running or
\* Registered), from which state nothing that is due can ever signal it.
ConflictWaitLiveness ==
    ~(/\ \E w \in Slots : pc[w] = "cond_wait_job"
      /\ \A j \in Slots : Quiescent(j))

\* C15: no operation changes the state or the ctx of a slot while another
\* thread holds the queue mutex (in the middle of its conflict scan or of its
\* completion sequence).
MutexDiscipline ==
    [][\A s \in Slots :
          (state'[s] # state[s] \/ ctx'[s] # ctx[s]) =>
              mutex \in {NoThread, s}]_vars

\* C16: release_slot on an Idle or Registered slot leaves the slot Void with
\* no ctx, registered one less and active unchanged; on a slot in any other
\* state it fails the assert of line 144, so the slot does not turn Void and
\* registered is not decremented.
ReleasePrecondition ==
    [][\A s \in Slots :
          job_queue_remove_worker(s) =>
              IF state[s] \in {JOB_IDLE, JOB_REGISTERED}
              THEN /\ state'[s] = JOB_VOID /\ ctx'[s] = NULL
                   /\ registered_workers' = registered_workers - 1
                   /\ active_workers' = active_workers
                   /\ ~aborted'
              ELSE /\ aborted' /\ ret' = Ret("abort", 144, s, 0)
                   /\ state'[s] = state[s]
                   /\ registered_workers' = registered_workers]_vars

\* release_slot has failed its assert on a slot that is Running or blocked in
\* start
ReleasePreconditionWitness ==
    /\ ret.op = "abort" /\ ret.line = 144
    /\ state[ret.slot] \in {JOB_RUNNING, JOB_WAIT_QUEUE_ENTER, JOB_WAIT_FOR_JOB}

\* the slots that hold a concurrency seat
Seated == {s \in Slots : state[s] \in {JOB_RUNNING, JOB_WAIT_FOR_JOB}}

\* C17: whenever the queue mutex is not held, active is the number of Running
\* slots plus the number of slots in WaitingForConflict, and active is never
\* below 0.
SeatAccounting ==
    /\ active_workers >= 0
    /\ mutex = NoThread =>
          active_workers = Cardinality({s \in Slots : Running(s)})
                         + Cardinality({s \in Slots : state[s] = JOB_WAIT_FOR_JOB})

\* a slot parked on a conflict holds the only seat taken: nothing is Running
SeatAccountingWitness ==
    /\ mutex = NoThread /\ active_workers = 1
    /\ \E s \in Slots : pc[s] = "cond_wait_job" /\ Seated = {s}

\* slot a is parked in WaitingForConflict with its waiter flag set on slot b
WaitsFor(a, b) == ParkedOn(a, b) /\ state[a] = JOB_WAIT_FOR_JOB

\* the slots reached from the slots of S along at most n wait-for edges, one
\* edge at least
RECURSIVE WaitReach(_, _)
WaitReach(S, n) ==
    IF n = 0 THEN {}
    ELSE LET T == {b \in Slots : \E a \in S : WaitsFor(a, b)}
         IN  T \cup WaitReach(T, n - 1)

\* C18: no reachable state contains a cycle of slots, each parked in
\* WaitingForConflict with its waiter flag set on the next one.
NoWaitCycle == \A s \in Slots : s \notin WaitReach({s}, MAX_WORKERS)

\* C19: no reachable state has a slot parked in WaitingForCapacity with no
\* wake-up pending for it while no thread holds the mutex and a seat is idle,
\* that is while active stays below max_concurrent even after every
\* capacity waiter already signalled has taken its seat.
NoIdleSeat ==
    ~(/\ mutex = NoThread
      /\ CapacityParked # {}
      /\ active_workers + Cardinality(CapacityPending) < max_concurrent_workers)

\* C20: while a slot is in state WaitingForCapacity because of a pending
\* start(s, ctx), the ctx stored on the slot is the ctx passed to that call.
CapacityWaiterPayload ==
    \A s \in Slots :
        (state[s] = JOB_WAIT_QUEUE_ENTER /\ s \in CapacityParked \cup CapacityPending)
            => ctx[s] = arg[s]

====
